---- MODULE Spec2Model ----
(***************************************************************************)
(* Model of src/app/page.tsx: the "Midnight Signals" page component.       *)
(* The component state (React state and refs), the browser objects it      *)
(* drives (timers, audio contexts, promises in flight) and one action per  *)
(* handler, callback or continuation.                                      *)
(*                                                                         *)
(* Time is discrete and kept per timer: `left` is the time until the timer *)
(* is due, `age` and `delta` the time since it was registered. Timer       *)
(* callbacks are urgent: time does not advance past a due timer. A         *)
(* continuation that resumes from an already settled promise (a microtask) *)
(* runs before any other handler.                                          *)
(*                                                                         *)
(* Timer ids, context slots and bed ids are compared only for equality, so *)
(* the smallest id that nothing live or referenced still holds stands for  *)
(* the fresh id the browser would hand out.                                *)
(* Segment indices are 1-based: index i here is STORY_SEGMENTS[i-1].       *)
(***************************************************************************)
EXTENDS Integers, Sequences, FiniteSets, TLC

\* ---------------------------------------------------------------- bounds
MaxSegments == 3
\* start clicks that reach startExperience
MaxStarts == 4
\* the sampler period of startTimer, in time units
SamplerPeriod == 1

VARIABLES
    STORY_SEGMENTS,       \* the timeline: Seq of [duration, effects]
    hasAudio,             \* window.AudioContext || webkitAudioContext exists
    mounted,              \* the component is mounted
    status, visibleSegments, activeSegment, elapsed,      \* React state
    audioContextRef, masterGainRef, ambientRef,           \* refs (0 = null)
    scheduleTimeoutsRef, timerIntervalRef,                \* refs
    contexts,             \* the AudioContext in each slot (state "none": no context)
    beds,                 \* the ambient beds whose nodes are running
    voices,               \* the effect voices still connected to the master bus of a context that is not closed
    timeouts, intervals,  \* the browser's live timers
    tasks,                \* async functions suspended at an await
    starts,               \* start clicks that reached startExperience so far
    \* observers: they record what happened and never guard the program
    lastOp,               \* the handler or callback that ran last
    staleFired,           \* it revealed or triggered effects for a torn-down run
    earlyEffect,          \* it triggered a segment's effects before marking it visible
    cancelled,            \* the kinds of timers its clearSchedule cancelled
    stopped,              \* whether its stopAmbient found a bed, and how many of its stop() calls raised
    orphaned,             \* the voices still connected on the context its teardown closed
    triggered             \* segments of the current run whose effects were triggered

reactState == <<status, visibleSegments, activeSegment, elapsed>>
refs == <<audioContextRef, masterGainRef, ambientRef, scheduleTimeoutsRef, timerIntervalRef>>
browser == <<contexts, beds, voices, timeouts, intervals, tasks>>
ContextSlots == 1..MaxStarts
observers == <<lastOp, staleFired, earlyEffect, cancelled, stopped, orphaned, triggered>>
vars == <<STORY_SEGMENTS, hasAudio, mounted, reactState, refs, browser, starts, observers>>

\* ---------------------------------------------------------------- data
\* the effect list of each timeline position, after STORY_SEGMENTS' entries
\* (one or two effects) and the optional `effects` field left out
EffectsAt(i) ==
    CASE i % 4 = 1 -> <<"heartbeat">>
      [] i % 4 = 2 -> <<>>
      [] i % 4 = 3 -> <<"whisper", "heartbeat">>
      [] OTHER     -> <<"gust">>

\* the duration of each timeline position: neighbours differ, as in
\* STORY_SEGMENTS (7500, 7000, 8000, ...), in units of a few seconds
DurationAt(i) == IF i % 2 = 1 THEN 2 ELSE 1

\* STORY_SEGMENTS cut to its first n entries, for every n in 1..MaxSegments
Timelines ==
    { [i \in 1..n |-> [duration |-> DurationAt(i), effects |-> EffectsAt(i)]] :
        n \in 1..MaxSegments }

Min(a, b) == IF a < b THEN a ELSE b

RECURSIVE SumDurations(_, _)
\* segments.slice(0, n).reduce((sum, item) => sum + item.duration, 0)
SumDurations(segs, n) ==
    IF n = 0 THEN 0 ELSE SumDurations(segs, n - 1) + segs[n].duration

TOTAL_DURATION == SumDurations(STORY_SEGMENTS, Len(STORY_SEGMENTS))

\* the delay of the deferred reveal of segment `index` (1-based, index >= 2)
RevealDelay(index) == SumDurations(STORY_SEGMENTS, index - 1)

\* the delay of the final timeout, registered by the last segment's callback
FinalDelay(index) == STORY_SEGMENTS[index].duration

\* a React state setter: ignored once the component is unmounted
SetState(old, new) == IF mounted THEN new ELSE old

NoMicrotask == \A t \in tasks : t.wait # "micro"

Range(s) == { s[k] : k \in 1..Len(s) }

NoContext == [state |-> "none", masterConnected |-> FALSE]

\* observer value of a step whose stopAmbient found no bed, or that ran none
NoStop == [ran |-> FALSE, raised |-> "none"]

\* ---------------------------------------------------------------- Init
Init ==
    /\ STORY_SEGMENTS \in Timelines
    /\ hasAudio \in BOOLEAN
    /\ mounted = TRUE
    /\ status = "idle"
    /\ visibleSegments = <<>>
    /\ activeSegment = 0
    /\ elapsed = 0
    /\ audioContextRef = 0
    /\ masterGainRef = 0
    /\ ambientRef = 0
    /\ scheduleTimeoutsRef = <<>>
    /\ timerIntervalRef = 0
    /\ contexts = [c \in ContextSlots |-> NoContext]
    /\ starts = 0
    /\ beds = {}
    /\ voices = {}
    /\ timeouts = {}
    /\ intervals = {}
    /\ tasks = {}
    /\ lastOp = "init"
    /\ staleFired = FALSE
    /\ earlyEffect = FALSE
    /\ cancelled = {}
    /\ stopped = NoStop
    /\ orphaned = {}
    /\ triggered = {}

\* ---------------------------------------------------------------- fresh ids
\* the smallest positive integer outside `used`
FirstFree(used) ==
    CHOOSE h \in 1..(Cardinality(used) + 1) :
        h \notin used /\ \A g \in 1..(h - 1) : g \in used

RECURSIVE FreshSeq(_, _)
\* n distinct ids outside `used`, in the order they are handed out
FreshSeq(used, n) ==
    IF n = 0 THEN <<>>
    ELSE LET h == FirstFree(used) IN <<h>> \o FreshSeq(used \cup {h}, n - 1)

\* timer ids a live timer or a ref still holds
UsedHandles ==
    { t.handle : t \in timeouts } \cup { i.handle : i \in intervals }
        \cup Range(scheduleTimeoutsRef) \cup {timerIntervalRef}

\* the slots that hold no context
FreeSlots == { c \in ContextSlots : contexts[c].state = "none" }

\* ---------------------------------------------------------------- clearSchedule
\* variant: clearSchedule that cancels no timeout
TimeoutsKept == timeouts

\* window.clearTimeout on every handle of scheduleTimeoutsRef
TimeoutsAfterClear ==
    { t \in timeouts : t.handle \notin Range(scheduleTimeoutsRef) }

\* window.clearInterval(timerIntervalRef.current) when it is set
IntervalsAfterClear ==
    IF timerIntervalRef # 0
    THEN { i \in intervals : i.handle # timerIntervalRef }
    ELSE intervals

\* observer: what survives a teardown belongs to a torn-down run
MarkStale(S) == { [x EXCEPT !.stale = TRUE] : x \in S }

\* clearSchedule; `teardown` tells the observer that a stop or unmount runs it
clearSchedule(teardown) ==
    /\ timeouts' = IF teardown THEN MarkStale(TimeoutsAfterClear) ELSE TimeoutsAfterClear
    /\ scheduleTimeoutsRef' = <<>>
    /\ intervals' = IF teardown THEN MarkStale(IntervalsAfterClear) ELSE IntervalsAfterClear
    /\ timerIntervalRef' = 0
    /\ cancelled' = { t.kind : t \in timeouts \ TimeoutsAfterClear } \cup
                    (IF IntervalsAfterClear # intervals THEN {"sampler"} ELSE {})

\* ---------------------------------------------------------------- audio session
\* the source nodes a bed owns, in the order stopAmbient visits them:
\* nodes.oscillators (bassOsc, highOsc), nodes.tremolo, nodes.noise
NodeOrder == <<"bassOsc", "highOsc", "tremolo", "noise">>
BedNodes == Range(NodeOrder)

\* variant: stop() called outside a try block, so that a raise ends stopAmbient
StopUncaught(n, raises) == n \notin raises

\* try { node.stop() } catch (error) {}: stopAmbient goes on after node n
\* whether or not its stop() raised
StopSurvives(n, raises) == TRUE

\* the nodes stopAmbient reaches, stop()s and disconnect()s, given the nodes
\* whose stop() raises
DisposedNodes(raises) ==
    { NodeOrder[k] : k \in { i \in 1..Len(NodeOrder) :
                               \A j \in 1..i : StopSurvives(NodeOrder[j], raises) } }

\* stopAmbient reaches its last statement
StopCompletes(raises) == DisposedNodes(raises) = BedNodes

\* the sets of raising nodes a step draws from: none, the first node, a
\* middle node, two nodes apart, the last node, all
RaisingSets ==
    {{}, {"bassOsc"}, {"tremolo"}, {"highOsc", "noise"}, {"noise"}, BedNodes}

\* observer: whether none, some or all of the owned nodes raised
RaisedClass(raises) ==
    IF raises = {} THEN "none" ELSE IF raises = BedNodes THEN "all" ELSE "some"

\* stopAmbient: stop and disconnect the nodes of ambientRef.current
BedsAfterStop(raises) ==
    IF StopCompletes(raises) THEN { b \in beds : b.id # ambientRef } ELSE beds

\* masterGain.disconnect() of teardownAudio
ContextsAfterDisconnect ==
    IF masterGainRef = 0 THEN contexts
    ELSE [contexts EXCEPT ![masterGainRef].masterConnected = FALSE]

\* the reference teardownAudio leaves in masterGainRef
MasterAfterTeardown == 0

\* the reference stopAmbient leaves in ambientRef
AmbientAfterStop(raises) ==
    IF StopCompletes(raises) THEN 0 ELSE ambientRef

\* the reference teardownAudio leaves in audioContextRef after its await
ContextRefAfterClose == 0

\* the contexts whose close() has not settled yet
Closing == { t.ctx : t \in { u \in tasks : u.kind = "teardown" } }

\* the voices whose gain is connected to the master bus of context c
VoicesOn(c) == { v \in voices : v.ctx = c }

\* a closed context that nothing refers to any more is forgotten
Forget(cs, c, ref, ts) ==
    IF cs[c].state = "closed" /\ ref # c /\ masterGainRef # c /\ \A t \in ts : t.ctx # c
    THEN [cs EXCEPT ![c] = NoContext]
    ELSE cs

\* observer: the start tasks a teardown finds pending belong to a torn-down run
TasksAtTeardown ==
    MarkStale({ t \in tasks : t.kind = "start" }) \cup { t \in tasks : t.kind # "start" }

\* teardownAudio up to its await, with the continuation folded in when
\* nothing is awaited (the context reads "closed"). close() sets the state
\* attribute to "closed" at once and resolves when the resources are released.
teardownAudio ==
    /\ \E raises \in (IF ambientRef = 0 THEN {{}} ELSE RaisingSets) :
         /\ beds' = BedsAfterStop(raises)
         /\ ambientRef' = AmbientAfterStop(raises)
         /\ stopped' = [ran |-> ambientRef # 0, raised |-> RaisedClass(raises)]
    /\ masterGainRef' = MasterAfterTeardown
    /\ LET c == audioContextRef
           cs == ContextsAfterDisconnect
       IN  IF c = 0
           THEN /\ contexts' = cs
                /\ tasks' = TasksAtTeardown
                /\ orphaned' = {}
                /\ UNCHANGED <<audioContextRef, voices>>
           ELSE IF cs[c].state = "closed"
           THEN /\ contexts' = cs
                /\ audioContextRef' = ContextRefAfterClose
                /\ tasks' = TasksAtTeardown
                /\ orphaned' = {}
                /\ UNCHANGED voices
           ELSE /\ contexts' = [cs EXCEPT ![c].state = "closed"]
                /\ tasks' = TasksAtTeardown \cup
                     {[kind |-> "teardown", wait |-> "close", ctx |-> c, stale |-> FALSE]}
                \* no ended event is delivered on a closed context: its voices
                \* stay connected for good
                /\ orphaned' = VoicesOn(c)
                /\ voices' = voices \ VoicesOn(c)
                /\ UNCHANGED audioContextRef

\* the continuation of teardownAudio once context.close() settled
CloseSettled(t) ==
    /\ NoMicrotask
    /\ t.kind = "teardown"
    /\ audioContextRef' = ContextRefAfterClose
    /\ tasks' = tasks \ {t}
    /\ contexts' = Forget(contexts, t.ctx, ContextRefAfterClose, tasks \ {t})
    /\ UNCHANGED voices
    /\ lastOp' = "closed"
    /\ UNCHANGED <<STORY_SEGMENTS, hasAudio, mounted, starts, reactState, masterGainRef, ambientRef,
                   scheduleTimeoutsRef, timerIntervalRef, beds, timeouts, intervals,
                   triggered>>
    /\ staleFired' = FALSE
    /\ earlyEffect' = FALSE
    /\ cancelled' = {} /\ stopped' = NoStop /\ orphaned' = {}

\* variant: ensureAudioContext that builds a new context on every call
EnsureAlwaysCreates == {"createRunning"}

\* what ensureAudioContext does before it returns or awaits
EnsureOutcomes ==
    IF audioContextRef = 0
    THEN IF hasAudio THEN {"createRunning", "createSuspended", "throw"} ELSE {"throw"}
    ELSE IF contexts[audioContextRef].state = "suspended"
         THEN {"awaitResume"}
         ELSE {"return"}

\* variant: a start button that is never disabled
StartNeverDisabled == FALSE

\* the start button: disabled={status === "playing"}
StartDisabled == status = "playing"

\* variant: a stop button that is never disabled
StopNeverDisabled == FALSE

\* the stop button: disabled={status === "idle"}
StopDisabled == status = "idle"

\* ---------------------------------------------------------------- startExperience
NumSegments == Len(STORY_SEGMENTS)

\* triggerEffects creates voices only for a non-empty effect list and with
\* both the context and the master bus present
EffectsPlay(effects) ==
    effects # <<>> /\ audioContextRef # 0 /\ masterGainRef # 0

\* the oscillator/gain pairs one effect creates: playChime three, the others one
VoicesOf(effect) == IF effect = "chime" THEN 3 ELSE 1

RECURSIVE VoiceCount(_, _)
\* the voices triggerEffects creates for the first k entries of `effects`
VoiceCount(effects, k) ==
    IF k = 0 THEN 0 ELSE VoiceCount(effects, k - 1) + VoicesOf(effects[k])

\* triggerEffects(STORY_SEGMENTS[index].effects): one voice per pair, each
\* with its gain connected to the master bus of the referenced context.
\* `k` numbers the pairs of one call, `copy` tells apart the voices of
\* repeated calls for the same segment on the same context.
NewVoices(index) ==
    LET effects == STORY_SEGMENTS[index].effects
        n == IF EffectsPlay(effects) THEN VoiceCount(effects, Len(effects)) ELSE 0
        copy == FirstFree({ v.copy : v \in { u \in voices : u.ctx = audioContextRef /\ u.seg = index } })
    IN  { [ctx |-> audioContextRef, seg |-> index, k |-> k, copy |-> copy] : k \in 1..n }

\* beginAmbientBed(context, master) throws when it has to build the bed and
\* either argument is null (createOscillator of null, connect(null))
BedThrows == ambientRef = 0 /\ (audioContextRef = 0 \/ masterGainRef = 0)

\* variant: beginAmbientBed without its early return
BedNeverExists == FALSE

\* beginAmbientBed returns at once when a bed exists
BedExists == ambientRef # 0

\* the timer ids startExperience draws: the sampler's, then one per later segment
StartHandles == FreshSeq(UsedHandles, NumSegments)

\* the deferred reveal callbacks startExperience registers
NewReveals(stale) ==
    { [handle |-> StartHandles[i], kind |-> "reveal", index |-> i,
       left |-> RevealDelay(i), age |-> 0, stale |-> stale] : i \in 2..NumSegments }

\* variant: a reveal that replaces the visible list
VisibleReplaced(prev, index) == <<index>>

\* setVisibleSegments((prev) => Array.from(new Set([...prev, segment.id])))
VisibleAfterReveal(prev, index) ==
    IF index \in Range(prev) THEN prev ELSE Append(prev, index)

\* the values startExperience sets before its await
VisibleAtStart == <<>>
ElapsedAtStart == 0

\* startExperience up to `await ensureAudioContext()`
StartClick ==
    /\ mounted
    /\ NoMicrotask
    /\ IF StartDisabled
       THEN /\ lastOp' = "startIgnored"
            /\ cancelled' = {} /\ stopped' = NoStop /\ orphaned' = {}
            /\ UNCHANGED <<STORY_SEGMENTS, hasAudio, mounted, reactState, refs, browser, starts, triggered>>
       ELSE /\ starts < MaxStarts
            /\ starts' = starts + 1
            /\ clearSchedule(FALSE)
            /\ stopped' = NoStop /\ orphaned' = {}
            /\ visibleSegments' = VisibleAtStart
            /\ activeSegment' = 0
            /\ status' = "playing"
            /\ elapsed' = ElapsedAtStart
            /\ triggered' = {}
            /\ \E outcome \in EnsureOutcomes :
                 LET created == outcome \in {"createRunning", "createSuspended"}
                     id == IF created THEN FirstFree(ContextSlots \ FreeSlots) ELSE audioContextRef
                 IN  /\ contexts' =
                          IF created
                          THEN [contexts EXCEPT ![id] =
                                 [state |-> IF outcome = "createRunning" THEN "running" ELSE "suspended",
                                  masterConnected |-> TRUE]]
                          ELSE contexts
                     /\ audioContextRef' = id
                     /\ masterGainRef' = IF created THEN id ELSE masterGainRef
                     /\ tasks' =
                          IF outcome = "throw" THEN tasks
                          ELSE tasks \cup
                                 {[kind |-> "start",
                                   wait |-> IF outcome = "awaitResume" THEN "resume" ELSE "micro",
                                   ctx |-> id, stale |-> FALSE]}
                     /\ lastOp' = IF outcome = "throw" THEN "acquireFailed" ELSE "start"
            /\ UNCHANGED <<STORY_SEGMENTS, hasAudio, mounted, ambientRef, beds, voices>>
    /\ staleFired' = FALSE
    /\ earlyEffect' = FALSE

\* startExperience after the await: everything but `contexts`
Continue(t) ==
    /\ tasks' = tasks \ {t}
    /\ IF BedThrows
       THEN /\ lastOp' = "bedFailed"
            /\ staleFired' = FALSE
            /\ earlyEffect' = FALSE
            /\ UNCHANGED <<reactState, refs, beds, voices, timeouts, intervals, triggered>>
       ELSE LET plays == EffectsPlay(STORY_SEGMENTS[1].effects)
            IN
            \* beginAmbientBed
            /\ beds' = IF BedExists THEN beds
                       ELSE beds \cup {[id |-> FirstFree({ b.id : b \in beds }), ctx |-> audioContextRef]}
            /\ ambientRef' = IF BedExists THEN ambientRef ELSE FirstFree({ b.id : b \in beds })
            \* triggerEffects(STORY_SEGMENTS[0].effects)
            /\ triggered' = IF plays THEN triggered \cup {1} ELSE triggered
            /\ voices' = voices \cup NewVoices(1)
            /\ earlyEffect' = (plays /\ 1 \notin Range(visibleSegments))
            \* startTimer
            /\ elapsed' = SetState(elapsed, 0)
            /\ intervals' = intervals \cup
                 {[handle |-> StartHandles[1], delta |-> 0, left |-> SamplerPeriod, stale |-> t.stale]}
            /\ timerIntervalRef' = StartHandles[1]
            \* reveal of segment 0
            /\ visibleSegments' = SetState(visibleSegments, <<1>>)
            /\ activeSegment' = SetState(activeSegment, 1)
            \* the deferred callbacks
            /\ timeouts' = timeouts \cup NewReveals(t.stale)
            /\ scheduleTimeoutsRef' =
                 scheduleTimeoutsRef \o [k \in 1..(NumSegments - 1) |-> StartHandles[k + 1]]
            /\ staleFired' = (t.stale /\ (plays \/ mounted))
            /\ lastOp' = IF BedExists THEN "scheduledBedKept" ELSE "scheduled"
            /\ UNCHANGED <<status, audioContextRef, masterGainRef>>
    /\ cancelled' = {} /\ stopped' = NoStop /\ orphaned' = {}
    /\ UNCHANGED <<STORY_SEGMENTS, hasAudio, mounted, starts>>

\* ensureAudioContext returned without awaiting: the continuation is a microtask
StartContinue(t) ==
    /\ t.kind = "start"
    /\ t.wait = "micro"
    /\ Continue(t)
    /\ UNCHANGED contexts

\* a pending resume() can resolve only until the context's close() settled
ResumeCanResolve(c) == contexts[c].state # "closed" \/ c \in Closing

\* audioContextRef.current.resume() resolved
ResumeResolved(t) ==
    /\ NoMicrotask
    /\ t.kind = "start"
    /\ t.wait = "resume"
    /\ ResumeCanResolve(t.ctx)
    /\ contexts' = [contexts EXCEPT ![t.ctx].state = IF @ = "suspended" THEN "running" ELSE @]
    /\ Continue(t)

\* audioContextRef.current.resume() rejected: startExperience ends at its await
ResumeRejected(t) ==
    /\ NoMicrotask
    /\ t.kind = "start"
    /\ t.wait = "resume"
    /\ tasks' = tasks \ {t}
    /\ contexts' = Forget(contexts, t.ctx, audioContextRef, tasks \ {t})
    /\ UNCHANGED voices
    /\ lastOp' = "acquireFailed"
    /\ UNCHANGED <<STORY_SEGMENTS, hasAudio, mounted, starts, reactState, refs, beds,
                   timeouts, intervals, triggered>>
    /\ staleFired' = FALSE
    /\ earlyEffect' = FALSE
    /\ cancelled' = {} /\ stopped' = NoStop /\ orphaned' = {}

\* ---------------------------------------------------------------- stopExperience, unmount
StopClick ==
    /\ mounted
    /\ NoMicrotask
    /\ IF StopDisabled
       THEN /\ lastOp' = "stopIgnored"
            /\ cancelled' = {} /\ stopped' = NoStop /\ orphaned' = {}
            /\ UNCHANGED <<STORY_SEGMENTS, hasAudio, mounted, reactState, refs, browser, starts, triggered>>
       ELSE /\ clearSchedule(TRUE)
            /\ status' = "idle"
            /\ activeSegment' = 0
            /\ visibleSegments' = <<>>
            /\ elapsed' = 0
            /\ teardownAudio
            /\ triggered' = {}
            /\ lastOp' = IF status = "playing" THEN "stopPlaying" ELSE "stopFinished"
            /\ UNCHANGED <<STORY_SEGMENTS, hasAudio, mounted, starts>>
    /\ staleFired' = FALSE
    /\ earlyEffect' = FALSE

\* the cleanup of the mount effect; React discards the component's state
Unmount ==
    /\ mounted
    /\ NoMicrotask
    /\ mounted' = FALSE
    /\ clearSchedule(TRUE)
    /\ teardownAudio
    /\ status' = "unmounted"
    /\ visibleSegments' = <<>>
    /\ activeSegment' = 0
    /\ elapsed' = 0
    /\ triggered' = {}
    /\ lastOp' = "unmount"
    /\ staleFired' = FALSE
    /\ earlyEffect' = FALSE
    /\ UNCHANGED <<STORY_SEGMENTS, hasAudio, starts>>

\* ---------------------------------------------------------------- timer callbacks
\* variant: a final timeout whose handle is not kept
ScheduleWithoutFinal(h) == scheduleTimeoutsRef

\* scheduleTimeoutsRef.current.push(finalTimeout)
ScheduleWithFinal(h) == Append(scheduleTimeoutsRef, h)

\* the deferred callback of segment t.index
RevealFire(t) ==
    /\ NoMicrotask
    /\ t.kind = "reveal"
    /\ t.left = 0
    /\ LET last == t.index = NumSegments
           h == FirstFree(UsedHandles)
           final == [handle |-> h, kind |-> "final", index |-> t.index,
                     left |-> FinalDelay(t.index), age |-> t.age, stale |-> t.stale]
       IN  /\ visibleSegments' = SetState(visibleSegments, VisibleAfterReveal(visibleSegments, t.index))
           /\ activeSegment' = SetState(activeSegment, t.index)
           /\ triggered' = IF EffectsPlay(STORY_SEGMENTS[t.index].effects)
                           THEN triggered \cup {t.index} ELSE triggered
           /\ voices' = voices \cup NewVoices(t.index)
           /\ timeouts' = (timeouts \ {t}) \cup (IF last THEN {final} ELSE {})
           /\ scheduleTimeoutsRef' =
                IF last THEN ScheduleWithFinal(h) ELSE scheduleTimeoutsRef
           /\ staleFired' = t.stale
    /\ lastOp' = "reveal"
    /\ UNCHANGED <<STORY_SEGMENTS, hasAudio, mounted, starts, status, elapsed, audioContextRef,
                   masterGainRef, ambientRef, timerIntervalRef, contexts, beds, intervals,
                   tasks>>
    /\ earlyEffect' = FALSE
    /\ cancelled' = {} /\ stopped' = NoStop /\ orphaned' = {}

\* the final timeout
\* variant: a final timeout that also stops the ambient bed
BedsStoppedAtFinal == { b \in beds : b.id # ambientRef }

\* the final timeout's callback calls neither stopAmbient nor teardownAudio
BedsAfterFinal == beds

FinalFire(t) ==
    /\ NoMicrotask
    /\ t.kind = "final"
    /\ t.left = 0
    /\ status' = SetState(status, "finished")
    /\ activeSegment' = SetState(activeSegment, 0)
    /\ intervals' = IntervalsAfterClear
    /\ timerIntervalRef' = 0
    /\ timeouts' = timeouts \ {t}
    /\ lastOp' = "finished"
    /\ beds' = BedsAfterFinal
    /\ UNCHANGED <<STORY_SEGMENTS, hasAudio, mounted, starts, visibleSegments, elapsed, audioContextRef,
                   masterGainRef, ambientRef, scheduleTimeoutsRef, contexts, voices,
                   tasks, triggered>>
    /\ staleFired' = FALSE
    /\ earlyEffect' = FALSE
    /\ cancelled' = {} /\ stopped' = NoStop /\ orphaned' = {}

\* Math.min(delta, TOTAL_DURATION) of the sampler
ElapsedSample(delta) == Min(delta, TOTAL_DURATION)

\* one tick of the interval startTimer registered
SamplerFire(i) ==
    /\ NoMicrotask
    /\ i.left = 0
    /\ elapsed' = SetState(elapsed, ElapsedSample(i.delta))
    /\ intervals' = (intervals \ {i}) \cup {[i EXCEPT !.left = SamplerPeriod]}
    /\ lastOp' = "sample"
    /\ UNCHANGED <<STORY_SEGMENTS, hasAudio, mounted, starts, status, visibleSegments, activeSegment,
                   refs, contexts, beds, voices, timeouts, tasks, triggered>>
    /\ staleFired' = FALSE
    /\ earlyEffect' = FALSE
    /\ cancelled' = {} /\ stopped' = NoStop /\ orphaned' = {}

\* a voice's source reaches its stop time only while its context renders:
\* the clock of a suspended or closed context stands still
VoiceCanEnd(v) == contexts[v.ctx].state = "running"

\* osc.onended / source.onended of a voice: gain.disconnect()
VoiceEnded(v) ==
    /\ NoMicrotask
    /\ VoiceCanEnd(v)
    /\ voices' = voices \ {v}
    /\ lastOp' = "voiceEnded"
    /\ staleFired' = FALSE
    /\ earlyEffect' = FALSE
    /\ cancelled' = {} /\ stopped' = NoStop /\ orphaned' = {}
    /\ UNCHANGED <<STORY_SEGMENTS, hasAudio, mounted, starts, reactState, refs, contexts, beds,
                   timeouts, intervals, tasks, triggered>>

\* one unit of time passes while no timer is due; time is observable only
\* through timers, so it stands still when none is live. A sampler's delta
\* is kept up to TOTAL_DURATION, beyond which its report no longer changes.
\* Every voice lasts less than the shortest segment and less than a time
\* unit: a voice that can end ends before time advances.
Tick ==
    /\ NoMicrotask
    /\ \A v \in voices : ~VoiceCanEnd(v)
    /\ timeouts # {} \/ intervals # {}
    /\ \A t \in timeouts : t.left > 0
    /\ \A i \in intervals : i.left > 0
    /\ timeouts' = { [t EXCEPT !.left = @ - 1, !.age = @ + 1] : t \in timeouts }
    /\ intervals' = { [i EXCEPT !.left = @ - 1, !.delta = Min(@ + 1, TOTAL_DURATION)] : i \in intervals }
    /\ lastOp' = "tick"
    /\ staleFired' = FALSE
    /\ earlyEffect' = FALSE
    /\ cancelled' = {} /\ stopped' = NoStop /\ orphaned' = {}
    /\ UNCHANGED <<STORY_SEGMENTS, hasAudio, mounted, starts, reactState, refs, contexts, beds, voices,
                   tasks, triggered>>

\* ---------------------------------------------------------------- specification
Next ==
    \/ StartClick
    \/ \E t \in tasks : StartContinue(t)
    \/ \E t \in tasks : ResumeResolved(t)
    \/ \E t \in tasks : ResumeRejected(t)
    \/ StopClick
    \/ Unmount
    \/ \E t \in tasks : CloseSettled(t)
    \/ \E t \in timeouts : RevealFire(t)
    \/ \E t \in timeouts : FinalFire(t)
    \/ \E i \in intervals : SamplerFire(i)
    \/ \E v \in voices : VoiceEnded(v)
    \/ Tick

Spec == Init /\ [][Next]_vars

\* ---------------------------------------------------------------- claims
LiveContexts == { c \in ContextSlots : contexts[c].state \in {"suspended", "running"} }

\* C1: whenever status is Idle, also while a teardown is still awaiting
\* close(), no deferred callback is pending, no sampler and no ambient bed is
\* running, and the backend and the master bus have been released.
C1_IdleMeansReleased ==
    status = "idle" =>
        /\ timeouts = {}
        /\ intervals = {}
        /\ beds = {}
        /\ masterGainRef = 0
        /\ audioContextRef = 0
        /\ LiveContexts = {}

\* C2: once stop or unmount has begun, no step reveals a segment or triggers
\* effects for a run started before it.
C2_NoStaleRevealOrEffect == ~staleFired

\* C3: when acquiring the backend fails during start (no audio capability,
\* or creation or resume throws), the controller is Idle with no segment
\* visible, no deferred callback pending and no sampler running.
C3_FailedAcquireEndsIdle ==
    lastOp = "acquireFailed" /\ mounted =>
        /\ status = "idle"
        /\ visibleSegments = <<>>
        /\ timeouts = {}
        /\ intervals = {}

\* a teardown is still awaiting close()
TeardownPending == \E t \in tasks : t.kind = "teardown"

\* C4: a stop click on a Playing controller leaves
\* status Idle, nothing visible, no active segment, elapsed 0, no deferred
\* callback pending, no ambient bed and no master bus; when the teardown's
\* close() has settled the backend reference is cleared as well.
C4_StopResetsAndClears ==
    [][ /\ (lastOp' = "stopPlaying" =>
              /\ status' = "idle"
              /\ visibleSegments' = <<>>
              /\ activeSegment' = 0
              /\ elapsed' = 0
              /\ timeouts' = {}
              /\ scheduleTimeoutsRef' = <<>>
              /\ ambientRef' = 0
              /\ beds' = {}
              /\ masterGainRef' = 0
              /\ (audioContextRef' # 0 => TeardownPending'))
        /\ (lastOp' = "closed" => audioContextRef' = 0) ]_vars

\* a stop click has just aborted a Playing run whose backend is closing
C4_StoppedWhilePlaying ==
    lastOp = "stopPlaying" /\ status = "idle" /\ TeardownPending /\ audioContextRef # 0

\* the sampler of the current run, if it is running
CurrentSampler == { i \in intervals : i.handle = timerIntervalRef }

Scheduled == {"scheduled", "scheduledBedKept"}

\* the first n timeline positions in timeline order
Prefix(n) == [k \in 1..n |-> k]

\* C6: the deferred reveals are due at their cumulative offsets, segment 0
\* is visible in the step that registers them, and the visible segments are
\* always a prefix of the timeline, in timeline order.
C6_RevealsInOrderAtOffsets ==
    /\ \A t \in timeouts : t.kind = "reveal" => t.age + t.left = RevealDelay(t.index)
    /\ (lastOp \in Scheduled /\ mounted => 1 \in Range(visibleSegments))
    /\ (mounted => visibleSegments = Prefix(Len(visibleSegments)))

\* C7: no segment's effects are triggered before the segment is marked
\* visible, segment 0 included, and the final timeout exists only after the
\* last segment's effects were triggered.
C7_EffectsNotBeforeReveal ==
    /\ ~earlyEffect
    /\ \A t \in timeouts :
         (t.kind = "final" /\ EffectsPlay(STORY_SEGMENTS[t.index].effects))
            => t.index \in triggered

\* a step in which a start click reached startExperience
StartRuns == starts' = starts + 1

\* C8: a start click while status is Playing does nothing: startExperience
\* does not run, and status, the visible segments, the active segment,
\* elapsed, the pending callbacks and the sampler stay as they are.
C8_StartWhilePlayingIsNoOp ==
    [][ status = "playing" =>
          /\ ~StartRuns
          /\ (lastOp' = "startIgnored"
                => UNCHANGED <<reactState, refs, browser>>) ]_vars

\* a start click was just ignored during a run with callbacks pending
C8_IgnoredStart ==
    lastOp = "startIgnored" /\ status = "playing" /\ timeouts # {} /\ intervals # {}

\* C9 as stated: a start click in Finished first releases the audio
\* session: the ambient bed is stopped, the master bus dropped and the
\* backend closed.
C9_ReplayReleasesSession ==
    [][ status = "finished" /\ StartRuns =>
          /\ beds' = {}
          /\ ambientRef' = 0
          /\ (audioContextRef # 0 => contexts'[audioContextRef].state = "closed") ]_vars

\* C9 as the code has it: a start click in Finished cancels the schedule and
\* resets the visible segments, the active segment and elapsed, but tears
\* down no audio: the ambient bed keeps running, and a backend that is
\* referenced is kept together with the master bus; only when no backend is
\* referenced is one acquired.
C9_ReplayKeepsSession ==
    [][ status = "finished" /\ StartRuns =>
          /\ status' = "playing"
          /\ visibleSegments' = <<>>
          /\ activeSegment' = 0
          /\ elapsed' = 0
          /\ timeouts' = TimeoutsAfterClear
          /\ beds' = beds
          /\ ambientRef' = ambientRef
          /\ (audioContextRef # 0 =>
                /\ audioContextRef' = audioContextRef
                /\ masterGainRef' = masterGainRef
                /\ contexts' = contexts) ]_vars

\* a start click has just replayed from Finished on the session of the
\* finished run (a bed survives only a run that was not stopped)
C9_ReplayedOnKeptSession ==
    /\ lastOp = "start" /\ status = "playing"
    /\ ambientRef # 0 /\ beds # {}
    /\ audioContextRef # 0 /\ masterGainRef = audioContextRef

\* C10: at most one ambient bed is alive; beginAmbientBed with a bed running
\* creates nothing and keeps the instance; and a start click in Finished
\* empties the visible segments and zeroes elapsed before the continuation
\* reveals segment 0.
C10_OneAmbientBed ==
    [][ /\ Cardinality(beds') <= 1
        /\ (ambientRef # 0 /\ lastOp' \in Scheduled =>
              beds' = beds /\ ambientRef' = ambientRef)
        /\ (status = "finished" /\ StartRuns =>
              /\ visibleSegments' = <<>>
              /\ elapsed' = 0
              /\ lastOp' \notin Scheduled) ]_vars

\* a replay has just scheduled its callbacks on the bed that was running
C10_ReplayScheduledOnRunningBed ==
    lastOp = "scheduledBedKept" /\ Cardinality(beds) = 1 /\ visibleSegments = <<1>>

\* C11: at most one backend is alive (created and not closed) at any time,
\* and the reference a settled close() clears is the reference to the backend
\* that was closed.
C11_OneLiveBackend ==
    [][ /\ Cardinality(LiveContexts') <= 1
        /\ (lastOp' = "closed" /\ audioContextRef # 0
              => contexts[audioContextRef].state = "closed") ]_vars

\* ensureAudioContext has just returned to startExperience
AcquireReturned == \E t \in tasks : t.kind = "start" /\ t.wait = "micro"

\* C12: whenever ensureAudioContext returns, also while a teardown's close()
\* is still pending, the backend it returns is neither closed nor closing and
\* the master bus is set and connected to that backend.
C12_AcquireYieldsUsableSession ==
    AcquireReturned =>
        /\ audioContextRef \in LiveContexts
        /\ masterGainRef = audioContextRef
        /\ contexts[audioContextRef].masterConnected

\* the values of lastOp after a stop click
StopOps == {"stopPlaying", "stopFinished", "stopIgnored"}

\* C13: a stop click in Idle does nothing: stopExperience does not run and
\* no state, ref, timer or pending teardown changes; and a stop click that
\* directly follows a stop click, also while the first one's teardown is
\* still awaiting close(), leaves what one stop leaves: status Idle, nothing
\* visible, elapsed 0, no deferred callback, no bed, no master bus, and the
\* backend reference cleared or about to be cleared by the pending teardown.
C13_StopIdempotent ==
    [][ status = "idle" =>
          /\ lastOp' \notin {"stopPlaying", "stopFinished"}
          /\ (lastOp' = "stopIgnored" => UNCHANGED <<reactState, refs, browser>>)
          /\ (lastOp \in StopOps /\ lastOp' = "stopIgnored" =>
                /\ status' = "idle"
                /\ visibleSegments' = <<>>
                /\ activeSegment' = 0
                /\ elapsed' = 0
                /\ timeouts' = {}
                /\ beds' = {}
                /\ ambientRef' = 0
                /\ masterGainRef' = 0
                /\ (audioContextRef' # 0 => TeardownPending')) ]_vars

\* a second stop click has just been ignored while the first one's teardown
\* is still awaiting close()
C13_SecondStopDuringTeardown ==
    lastOp = "stopIgnored" /\ status = "idle" /\ TeardownPending /\ elapsed = 0

\* C14: while Playing with a segment revealed the active segment is the
\* segment revealed last; in Finished no segment is active; an active
\* segment is always visible.
C14_ActiveIsLatestReveal ==
    mounted =>
        /\ (status = "playing" /\ visibleSegments # <<>>
              => activeSegment = visibleSegments[Len(visibleSegments)])
        /\ (status = "finished" => activeSegment = 0)
        /\ (activeSegment # 0 => activeSegment \in Range(visibleSegments))

\* a step that ran clearSchedule: an accepted start or stop click, or unmount
ClearScheduleRan == lastOp' \in {"start", "acquireFailed", "stopPlaying", "stopFinished", "unmount"}
                      /\ (lastOp' = "acquireFailed" => StartRuns)

\* C15: clearSchedule, run in any state with any number of callbacks
\* registered, leaves no deferred callback pending and no sampler running.
C15_ClearScheduleLeavesNothing ==
    [][ ClearScheduleRan => timeouts' = {} /\ intervals' = {} ]_vars

\* C16: elapsed is always within 0..TOTAL_DURATION, every value a sampler
\* reports is the capped time since the current run was scheduled, elapsed
\* is not updated while status is Idle or Finished, and at most one sampler
\* is running.
C16_ElapsedIsCappedRunTime ==
    [][ /\ elapsed' \in 0..TOTAL_DURATION
        /\ Cardinality(intervals') <= 1
        /\ (lastOp' = "sample" /\ mounted =>
              /\ status = "playing"
              /\ \E i \in CurrentSampler : i.left = 0 /\ elapsed' = Min(i.delta, TOTAL_DURATION)) ]_vars

\* the steps of the timeline's callbacks: a deferred reveal, the final
\* timeout, a sampler tick
TimelineCallbackRan == lastOp' \in {"reveal", "finished", "sample"}

\* s lists no segment twice
NoDuplicates(s) == Cardinality(Range(s)) = Len(s)

\* C17: no timeline callback removes a segment from the visible list: a
\* reveal keeps every visible segment where it is and adds at most its own
\* one, revealing a visible segment changes nothing, the list never holds a
\* segment twice, and the final timeout leaves the list unchanged.
C17_VisibilityMonotonic ==
    [][ /\ NoDuplicates(visibleSegments')
        /\ (TimelineCallbackRan =>
              /\ Len(visibleSegments') >= Len(visibleSegments)
              /\ SubSeq(visibleSegments', 1, Len(visibleSegments)) = visibleSegments
              /\ Len(visibleSegments') <= Len(visibleSegments) + 1)
        /\ (lastOp' \in {"finished", "sample"} => visibleSegments' = visibleSegments)
        /\ (lastOp' = "reveal" /\ activeSegment' \in Range(visibleSegments)
              => visibleSegments' = visibleSegments) ]_vars

\* a deferred callback has just revealed a segment that was already visible
C17_RevealedAgain ==
    /\ lastOp = "reveal" /\ staleFired /\ mounted
    /\ Len(visibleSegments) >= 2
    /\ activeSegment # visibleSegments[Len(visibleSegments)]

\* C20: a stop click cancels the final timeout together with the reveal
\* callbacks, and status becomes Finished only out of Playing: after a stop
\* the status stays Idle until a start click.
C20_NoFinishedAfterStop ==
    [][ /\ (lastOp' \in {"stopPlaying", "stopFinished"} => timeouts' = {})
        /\ (status = "idle" => status' \in {"idle", "playing", "unmounted"})
        /\ (status = "idle" /\ status' = "playing" => StartRuns)
        /\ (status' = "finished" /\ status # "finished" => status = "playing") ]_vars

\* a stop click has just cancelled the final timeout of a Playing run
C20_StoppedBeforeFinal ==
    lastOp = "stopPlaying" /\ "final" \in cancelled /\ status = "idle"

\* a step that ran stopAmbient (through teardownAudio): a stop click or unmount
StopAmbientRan == lastOp' \in {"stopPlaying", "stopFinished", "unmount"}

\* C18: whichever owned nodes raise in stop(), stopAmbient reaches, stops and disconnects all four of them and
\* clears ambientRef, so that the bed is gone and the next beginAmbientBed
\* builds a new one; with no bed it changes nothing.
C18_StopAmbientCompletes ==
    [][ StopAmbientRan =>
          /\ stopped'.ran = (ambientRef # 0)
          /\ \A raises \in SUBSET BedNodes : DisposedNodes(raises) = BedNodes
          /\ ambientRef' = 0
          /\ ~BedExists'
          /\ beds' = { b \in beds : b.id # ambientRef }
          /\ (ambientRef = 0 => beds' = beds) ]_vars

\* stopAmbient has just disposed of a bed of which some nodes, not all,
\* raised in stop()
C18_StoppedWithRaisingNodes ==
    /\ stopped.ran
    /\ stopped.raised = "some"
    /\ beds = {} /\ ambientRef = 0

\* C19: every triggered effect voice is eventually disconnected from the master
\* bus exactly once, by its own ended event only: no step leaves a voice
\* connected on a context that will never deliver that event, no other step
\* disconnects a voice, and each ended event disconnects one voice and leaves
\* the others of its segment alone.
C19_VoicesEndByCompletion ==
    [][ /\ orphaned' = {}
        /\ \A v \in (voices \ voices') \ orphaned' : lastOp' = "voiceEnded"
        /\ (lastOp' = "voiceEnded" => \E v \in voices : voices' = voices \ {v}) ]_vars

\* the master bus the component references is connected to the destination of
\* a context that is not closed, and the ambient bed it references has not
\* been stopped and sits on a context that is not closed
SessionLive ==
    /\ masterGainRef \in LiveContexts
    /\ contexts[masterGainRef].masterConnected
    /\ \E b \in beds :
          /\ b.id = ambientRef
          /\ b.ctx \in LiveContexts
          /\ contexts[b.ctx].masterConnected

\* C21: the step from Playing to Finished is the final timeout's callback and
\* changes only status, the active segment and the sampler; the context, the
\* master bus, the ambient bed and the voices are left as they were, so that
\* in every Finished state the bed still plays on a live session, and nothing
\* changes the bed or the master bus while the status stays Finished.
C21_FinishKeepsAudioSession ==
    [][ /\ (status = "playing" /\ status' = "finished" =>
               /\ lastOp' = "finished"
               /\ activeSegment' = 0
               /\ timerIntervalRef' = 0
               /\ intervals' = intervals \ CurrentSampler
               /\ UNCHANGED <<visibleSegments, elapsed, audioContextRef, masterGainRef, ambientRef,
                              scheduleTimeoutsRef, contexts, beds, voices, tasks>>)
        /\ (status' = "finished" => SessionLive')
        /\ (status = "finished" /\ status' = "finished" =>
               UNCHANGED <<beds, ambientRef, masterGainRef>>) ]_vars

\* the final timeout has just ended a run whose bed plays on a running context
C21_FinishedWithBedRunning ==
    /\ lastOp = "finished"
    /\ status = "finished"
    /\ timerIntervalRef = 0
    /\ \E b \in beds : b.id = ambientRef /\ contexts[b.ctx].state = "running"

====
